---- MODULE Spec2Model ----
(***************************************************************************)
(* deno-serialport: the SerialPort session object (mod.ts), the FFI        *)
(* bindings (ffi.ts) and the binary provisioner (loader.ts).               *)
(*                                                                         *)
(* Spec         one SerialPort session: readable streams, write(), the     *)
(*              one-shot control calls, close(), [Symbol.asyncDispose].    *)
(* ReadSpec     the session without write().                               *)
(* WriteSpec    the session without readable streams.                      *)
(* FairReadSpec streams and close() with the event loop delivering read    *)
(*              completions and a consumer that keeps pulling.             *)
(* LoaderSpec   ensureLibrary() and init() tasks interleaving at their     *)
(*              awaits over one file system.                               *)
(* StreamSpec   streams and close().                                       *)
(* TimeoutSpec  StreamSpec for a session opened with any readTimeoutMs.    *)
(* GetSpec      get() over every modem-line mask, and close().             *)
(* FfiSpec      the session with its native calls in flight: synchronous   *)
(*              symbols hold the primary thread, nonblocking ones finish   *)
(*              on a worker before their result is delivered.              *)
(* ListSpec     one SerialPort.list() call.                                *)
(***************************************************************************)
EXTENDS Integers, Sequences, FiniteSets, TLC

\* ------------------------------------------------------------------ bounds
MaxNativeCalls == 3   \* registry calls recorded per behaviour
MaxStreams == 2       \* ReadableStreams obtained from `readable`
MaxWrites == 2        \* write() calls
MaxPayload == 2       \* bytes per write() payload
MaxRead == 1          \* largest byte count one native read delivers
MaxTasks == 2         \* concurrent ensureLibrary()/init() tasks
MaxPorts == 3         \* ports serial_list_ports_len reports

\* ------------------------------------------------------- program constants
BufSize == 8192       \* new Uint8Array(8192)
ReadTimeoutArg == -1  \* timeout argument handed to serial_read

Handles == {1}
FlushOpts == {[in |-> TRUE, out |-> FALSE], [in |-> FALSE, out |-> TRUE]}
RCs == {0, -1}        \* i32 return codes: 0 = OK, nonzero = failure
Masks == 0..15        \* the modem-line masks serial_get_lines writes
SampleMasks == {5}    \* the mask answered where get() runs beside other calls
\* payloads whose bytes differ by position, so that a slice shows its offset
Payloads == {[i \in 1..n |-> i] : n \in 0..MaxPayload}
ReadResults == (-1)..MaxRead

VARIABLES
  h,          \* SerialPort.#h
  closed,     \* SerialPort.#closed
  streams,    \* the ReadableStreams created by `readable`, in creation order
  writes,     \* the write() calls, in call order
  calls,      \* per registry function, the calls issued with a handle, in issue order
  lastOp,     \* the latest synchronous client call (cancel included) and how it ended
  fs,         \* file system: normalised path -> "absent" | "partial" | "complete"
  env,        \* DENO_SERIAL_LIB_PATH, <<>> when unset
  host,       \* Deno.build: [os, arch]
  tasks,      \* ensureLibrary()/init() tasks
  libLoaded,  \* mod.ts libLoaded
  lib,        \* ffi.ts lib: <<>> (null) or the dlopen'ed path
  dlopens,    \* number of Deno.dlopen calls
  clock,      \* orders the starts and returns of tasks
  main,       \* the primary thread: InJs, or the synchronous native call it is inside
  openArgs,   \* what open() passed to serial_open
  errSlot,    \* the library's last-error slot: <<>> or the call whose failure it describes
  results,    \* nonblocking calls finished on their worker, not yet delivered
  thrown,     \* the failures raised so far: who raised, and with which message
  ls          \* the list() call in progress

sessionVars == <<h, closed, streams, writes, calls, lastOp>>
loaderVars == <<fs, env, host, tasks, libLoaded, lib, dlopens, clock>>
ffiVars == <<main, openArgs, errSlot, results, thrown>>
vars == <<h, closed, streams, writes, calls, lastOp,
          fs, env, host, tasks, libLoaded, lib, dlopens, clock,
          main, openArgs, errSlot, results, thrown, ls>>

\* ------------------------------------------------------------ helpers
\* The registry functions that take a handle (ffi.ts symbols).
Fns == {"read", "write", "flush", "drain", "setLines", "getLines", "close"}

\* A registry call as recorded: the handle and arguments passed, who issued
\* it, and whether #closed was already set when it was issued. The return code
\* is kept for serial_close alone ("-" otherwise): later close() calls are
\* judged against it. How a one-shot call ended is in lastOp, the results of
\* the nonblocking read and write are in streams and writes.
Call(args, by, rc) == [h |-> h, args |-> args, by |-> by, late |-> closed, rc |-> rc]
Issue(fn, args, by, rc) == [calls EXCEPT ![fn] = Append(@, Call(args, by, rc))]
\* if (rc !== 0) throw new Error(getLastError() || ...)
Raises(rc) == rc # 0
NumCalls(c) == Len(c["read"]) + Len(c["write"]) + Len(c["flush"]) + Len(c["drain"])
               + Len(c["setLines"]) + Len(c["getLines"]) + Len(c["close"])
CanIssue == NumCalls(calls) < MaxNativeCalls
\* How a synchronous client call ended: #closed before it, and whether it raised.
\* io is filled by get() alone: what serial_get_lines answered and what get()
\* returned.
Done(op, pre, raised) == [op |-> op, pre |-> pre, raised |-> raised, io |-> {}]
Suffix(data, off) == SubSeq(data, off + 1, Len(data))

\* ------------------------------------------------------------ SerialPort
\* close(): guard on #closed, serial_close, mark closed, then inspect rc.
CloseCalls_NoGuard(by, rc) == Issue("close", <<>>, by, rc)
CloseCalls(by, rc) == IF closed THEN calls ELSE Issue("close", <<>>, by, rc)
CloseRaises(rc) == ~closed /\ Raises(rc)

Close(rc) ==
  /\ closed \/ CanIssue
  /\ calls' = CloseCalls("close", rc)
  /\ closed' = TRUE
  /\ lastOp' = Done("close", closed, CloseRaises(rc))
  /\ UNCHANGED <<h, streams, writes>>

AsyncDispose_Drains(rc) ==
  /\ closed \/ CanIssue
  /\ calls' = [CloseCalls("dispose", rc) EXCEPT
                 !["drain"] = Append(@, Call(<<>>, "dispose", "-"))]
  /\ closed' = TRUE
  /\ lastOp' = Done("dispose", closed, FALSE)
  /\ UNCHANGED <<h, streams, writes>>

\* [Symbol.asyncDispose](): try { this.close() } catch {}; no drain.
AsyncDispose(rc) ==
  /\ closed \/ CanIssue
  /\ calls' = CloseCalls("dispose", rc)
  /\ closed' = TRUE
  /\ lastOp' = Done("dispose", closed, FALSE)
  /\ UNCHANGED <<h, streams, writes>>

\* flush(), drain(), set(), get(): one registry call, raising when it returns
\* nonzero.
OneShot(op, fn, args, rc) ==
  /\ CanIssue
  /\ calls' = Issue(fn, args, op, "-")
  /\ lastOp' = Done(op, closed, Raises(rc))
  /\ UNCHANGED <<h, closed, streams, writes>>

\* const fi = opts.in ? 1 : 0; const fo = opts.out ? 1 : 0
Bit(b) == IF b THEN 1 ELSE 0
Flush(opts, rc) == OneShot("flush", "flush", <<Bit(opts.in), Bit(opts.out)>>, rc)
Drain(rc) == OneShot("drain", "drain", <<>>, rc)
Set(rc) == OneShot("set", "setLines", <<>>, rc)

\* !!(m & (1 << k))
BitSet(m, k) == ((m \div (2 ^ k)) % 2) * (2 ^ k) # 0

Lines_DsrDcdSwapped(m) ==
  [cts |-> BitSet(m, 0), dsr |-> BitSet(m, 2), dcd |-> BitSet(m, 1), ri |-> BitSet(m, 3)]
\* const m = maskBuf[0] >>> 0; return { cts: ..., dsr: ..., dcd: ..., ri: ... }
Lines(m) ==
  [cts |-> BitSet(m, 0), dsr |-> BitSet(m, 1), dcd |-> BitSet(m, 2), ri |-> BitSet(m, 3)]

\* get(): serial_get_lines answers rc and writes mask to maskBuf; throw on a
\* nonzero rc, else decode the mask.
Get(rc, mask) ==
  /\ CanIssue
  /\ calls' = Issue("getLines", <<>>, "get", "-")
  /\ lastOp' = [Done("get", closed, Raises(rc)) EXCEPT
                  !.io = {[rc |-> rc, mask |-> mask,
                           out |-> IF Raises(rc) THEN {} ELSE {Lines(mask)}]}]
  /\ UNCHANGED <<h, closed, streams, writes>>

\* `readable` getter: a new ReadableStream over the same session.
Readable ==
  /\ Len(streams) < MaxStreams
  /\ streams' = Append(streams, [state |-> "readable", pulling |-> FALSE,
                                 chunks |-> <<>>, why |-> "open", res |-> <<>>])
  /\ UNCHANGED <<h, closed, writes, calls, lastOp>>

PullSeesClosed_Never == FALSE
\* if (this.#closed) at the head of pull
PullSeesClosed == closed

\* pull, up to the await: close the controller if #closed, else serial_read.
Pull(s) ==
  /\ streams[s].state = "readable"
  /\ ~streams[s].pulling
  /\ IF PullSeesClosed
       THEN /\ streams' = [streams EXCEPT ![s].state = "closed",
                                          ![s].why = "session closed"]
            /\ calls' = calls
       ELSE /\ CanIssue
            /\ calls' = Issue("read", <<BufSize, ReadTimeoutArg>>, <<"pull", s>>, "-")
            /\ streams' = [streams EXCEPT ![s].pulling = TRUE]
  /\ UNCHANGED <<h, closed, writes, lastOp>>

Subarray_WholeBuffer(from, to) == [from |-> 0, to |-> BufSize]
\* buf.subarray(from, to): the bytes of the read buffer from `from` up to `to`
Subarray(from, to) == [from |-> from, to |-> to]

Classify_NoClosedCheck(st, n) ==
  IF st.state # "readable" THEN st
  ELSE IF n < 0 THEN [st EXCEPT !.state = "errored", !.why = "negative"]
  ELSE IF n = 0 THEN [st EXCEPT !.state = "closed", !.why = "zero"]
  ELSE [st EXCEPT !.chunks = Append(@, Subarray(0, n))]

\* What pull does with the native read result n once the await resumes.
\* `why` keeps which branch ended the stream.
Classify(st, n) ==
  IF st.state # "readable" THEN st   \* cancelled meanwhile: controller calls are void
  ELSE IF n < 0 /\ closed THEN [st EXCEPT !.state = "closed", !.why = "negative, closed"]
  ELSE IF n < 0 THEN [st EXCEPT !.state = "errored", !.why = "negative"]
  ELSE IF n = 0 THEN [st EXCEPT !.state = "closed", !.why = "zero"]
  ELSE [st EXCEPT !.chunks = Append(@, Subarray(0, n))]

\* The await in pull resumes with n. `res` keeps the result the controller was
\* last driven with.
ReadDone(s, n) ==
  /\ streams[s].pulling
  /\ LET st == streams[s]
         seen == IF st.state = "readable" THEN <<n>> ELSE st.res
     IN streams' = [streams EXCEPT ![s] =
                      Classify([st EXCEPT !.pulling = FALSE, !.res = seen], n)]
  /\ UNCHANGED <<h, closed, writes, calls, lastOp>>

Cancel_StreamOnly(s, rc) ==
  /\ streams[s].state = "readable"
  /\ streams' = [streams EXCEPT ![s].state = "closed", ![s].why = "cancel"]
  /\ lastOp' = Done("cancel", closed, FALSE)
  /\ UNCHANGED <<h, closed, writes, calls>>

\* cancel: if (!this.#closed) await this.close(); the stream is closed either way.
Cancel(s, rc) ==
  /\ streams[s].state = "readable"
  /\ closed \/ CanIssue
  /\ calls' = CloseCalls("cancel", rc)
  /\ closed' = TRUE
  /\ streams' = [streams EXCEPT ![s].state = "closed", ![s].why = "cancel"]
  /\ lastOp' = Done("cancel", closed, CloseRaises(rc))
  /\ UNCHANGED <<h, writes>>

\* write(data), up to its first await: the loop test, then serial_write(slice).
Write(data) ==
  /\ Len(writes) < MaxWrites
  /\ IF 0 < Len(data)
       THEN /\ CanIssue
            /\ calls' = Issue("write", <<Suffix(data, 0), Len(Suffix(data, 0))>>,
                              <<"write", Len(writes) + 1>>, "-")
            /\ writes' = Append(writes, [data |-> data, off |-> 0,
                                         st |-> "inflight", counts |-> <<>>])
       ELSE /\ calls' = calls
            /\ writes' = Append(writes, [data |-> data, off |-> 0,
                                         st |-> "done", counts |-> <<>>])
  /\ UNCHANGED <<h, closed, streams, lastOp>>

WriteFails_OnZeroToo(n) == n <= 0
\* if (nBig < 0n) throw ...
WriteFails(n) == n < 0

Advance_Stuck(off, n) == off
\* off += Number(nBig)
Advance(off, n) == off + n

\* write(data), from one await to the next: throw on a negative result, else
\* advance the offset and loop.
WriteDone(w, n) ==
  /\ writes[w].st = "inflight"
  /\ n \in (-1)..(Len(writes[w].data) - writes[w].off)
  /\ LET wr == writes[w]
         off2 == Advance(wr.off, n)
         wr2 == [wr EXCEPT !.counts = Append(@, n)]
     IN IF WriteFails(n)
          THEN /\ writes' = [writes EXCEPT ![w] = [wr2 EXCEPT !.st = "failed"]]
               /\ calls' = calls
          ELSE IF off2 < Len(wr.data)
            THEN /\ CanIssue
                 /\ calls' = Issue("write", <<Suffix(wr.data, off2),
                                              Len(Suffix(wr.data, off2))>>,
                                   <<"write", w>>, "-")
                 /\ writes' = [writes EXCEPT ![w] = [wr2 EXCEPT !.off = off2]]
            ELSE /\ calls' = calls
                 /\ writes' = [writes EXCEPT ![w] =
                                 [wr2 EXCEPT !.off = off2, !.st = "done"]]
  /\ UNCHANGED <<h, closed, streams, lastOp>>

\* ------------------------------------------------------------ loader.ts
\* Paths are sequences of components; the file system resolves a path by
\* dropping its "." components, so two spellings can name one file.
Normalize(p) == SelectSeq(p, LAMBDA c : c # ".")
Exists(p) == Normalize(p) \in DOMAIN fs

DetectTarget(os, arch) ==
  IF os = "windows" /\ arch = "x86_64" THEN "win32-x64"
  ELSE IF os = "windows" /\ arch = "aarch64" THEN "win32-arm64"
  ELSE IF os = "linux" /\ arch = "x86_64" THEN "linux-x64-gnu"
  ELSE IF os = "linux" /\ arch = "aarch64" THEN "linux-arm64-gnu"
  ELSE IF os = "darwin" /\ arch = "x86_64" THEN "darwin-x64"
  ELSE IF os = "darwin" /\ arch = "aarch64" THEN "darwin-arm64"
  ELSE "unsupported"

FilenameFor(t) ==
  IF t \in {"win32-x64", "win32-arm64"} THEN "deno_serial.dll"
  ELSE IF t \in {"linux-x64-gnu", "linux-arm64-gnu"} THEN "libdeno_serial.so"
  ELSE IF t \in {"darwin-x64", "darwin-arm64"} THEN "libdeno_serial.dylib"
  ELSE "unreachable"

RustTripleFor(t) ==
  CASE t = "win32-x64" -> "x86_64-pc-windows-msvc"
    [] t = "win32-arm64" -> "aarch64-pc-windows-msvc"
    [] t = "linux-x64-gnu" -> "x86_64-unknown-linux-gnu"
    [] t = "linux-arm64-gnu" -> "aarch64-unknown-linux-gnu"
    [] t = "darwin-x64" -> "x86_64-apple-darwin"
    [] t = "darwin-arm64" -> "aarch64-apple-darwin"
    [] OTHER -> "undefined"

TriplePath(t, filename) == <<"target", RustTripleFor(t), "release", filename>>
HostPath(filename) == <<"target", "release", filename>>
CachePath(filename) == <<".deno_serial", filename>>
LocalPath(localDir, filename) == localDir \o <<filename>>
ReleaseUrl(version, t, filename) ==
  <<"https://github.com/takker99/deno-serialport/releases/download",
    version, t, filename>>
\* resp.ok
Ok(status) == 200 <= status /\ status <= 299

Target == DetectTarget(host.os, host.arch)
Filename == FilenameFor(Target)

InitDir == <<".deno_serial">>
InitVersion == "v0.1.0"

LocalDirs == {<<".deno_serial">>, <<".", ".deno_serial">>, <<"cache">>}
Versions == {"v0.1.0", "v0.2.0"}
Statuses == {200, 404}
Hosts == {[os |-> "linux", arch |-> "x86_64"], [os |-> "freebsd", arch |-> "x86_64"]}
EnvPaths == {<<>>, <<"opt", "serial.lib">>}

Tick == clock' = clock + 1

\* A call of ensureLibrary(dir, version), made by a client ("ensure") or by
\* init() ("init"). Beside its position and result a task keeps what it did:
\* resp the status it was answered, fetched/wrote whether it fetched and wrote,
\* pre whether its cache file existed when it was called, started/ended when.
NewTask(kind, dir, version) ==
  [pc |-> "mkdir", kind |-> kind, dir |-> dir, version |-> version,
   ret |-> <<>>, err |-> <<>>, resp |-> 0, fetched |-> FALSE, wrote |-> FALSE,
   ensured |-> TRUE,
   pre |-> Exists(LocalPath(dir, FilenameFor(Target))),
   started |-> clock + 1, ended |-> 0]

Return(t, path) ==
  /\ tasks' = [tasks EXCEPT ![t].pc = "returned", ![t].ret = path,
                            ![t].ended = clock + 1]
  /\ Tick

Throw(t, err) ==
  /\ tasks' = [tasks EXCEPT ![t].pc = "failed", ![t].err = err,
                            ![t].ended = clock + 1]
  /\ Tick

Goto(t, pc) == tasks' = [tasks EXCEPT ![t].pc = pc] /\ clock' = clock

\* A client calls ensureLibrary(localDir, version).
EnsureLibrary(dir, version) ==
  /\ Len(tasks) < MaxTasks
  /\ tasks' = Append(tasks, NewTask("ensure", dir, version))
  /\ Tick
  /\ UNCHANGED <<fs, env, host, libLoaded, lib, dlopens>>

\* await Deno.mkdir(localDir, {recursive: true}); detectTarget(); filenameFor(t)
Mkdir(t) ==
  /\ tasks[t].pc = "mkdir"
  /\ fs' = IF Exists(tasks[t].dir) THEN fs
           ELSE (Normalize(tasks[t].dir) :> "dir") @@ fs
  /\ IF Target = "unsupported"
       THEN Throw(t, [kind |-> "unsupported", os |-> host.os, arch |-> host.arch])
       ELSE Goto(t, "env")
  /\ UNCHANGED <<env, host, libLoaded, lib, dlopens>>

\* findLocalBuild 1): the override from the environment, if it exists
FindEnv(t) ==
  /\ tasks[t].pc = "env"
  /\ IF env # <<>> /\ Exists(env) THEN Return(t, env) ELSE Goto(t, "triple")
  /\ UNCHANGED <<fs, env, host, libLoaded, lib, dlopens>>

\* findLocalBuild 2): target/<triple>/release/<filename>
FindTriple(t) ==
  /\ tasks[t].pc = "triple"
  /\ IF Exists(TriplePath(Target, Filename))
       THEN Return(t, TriplePath(Target, Filename))
       ELSE Goto(t, "host")
  /\ UNCHANGED <<fs, env, host, libLoaded, lib, dlopens>>

\* findLocalBuild 3): target/release/<filename>
FindHost(t) ==
  /\ tasks[t].pc = "host"
  /\ IF Exists(HostPath(Filename)) THEN Return(t, HostPath(Filename))
                                   ELSE Goto(t, "cache")
  /\ UNCHANGED <<fs, env, host, libLoaded, lib, dlopens>>

\* findLocalBuild 4): .deno_serial/<filename>, whatever localDir is
FindCache(t) ==
  /\ tasks[t].pc = "cache"
  /\ IF Exists(CachePath(Filename)) THEN Return(t, CachePath(Filename))
                                    ELSE Goto(t, "stat")
  /\ UNCHANGED <<fs, env, host, libLoaded, lib, dlopens>>

\* try { await Deno.stat(localPath); return localPath } catch {}
StatLocal(t) ==
  /\ tasks[t].pc = "stat"
  /\ IF Exists(LocalPath(tasks[t].dir, Filename))
       THEN Return(t, LocalPath(tasks[t].dir, Filename))
       ELSE Goto(t, "fetch")
  /\ UNCHANGED <<fs, env, host, libLoaded, lib, dlopens>>

OnResponse_IgnoresStatus(tk, status) ==
  [tk EXCEPT !.pc = "body", !.resp = status, !.fetched = TRUE]

\* What the task does with the response: throw unless resp.ok.
OnResponse(tk, status) ==
  IF Ok(status)
    THEN [tk EXCEPT !.pc = "body", !.resp = status, !.fetched = TRUE]
    ELSE [tk EXCEPT !.pc = "failed", !.resp = status, !.fetched = TRUE,
                    !.ended = clock + 1,
                    !.err = [kind |-> "download", status |-> status,
                             url |-> ReleaseUrl(tk.version, Target, Filename)]]

\* const resp = await fetch(url); if (!resp.ok) throw ...
Fetch(t, status) ==
  /\ tasks[t].pc = "fetch"
  /\ tasks' = [tasks EXCEPT ![t] = OnResponse(@, status)]
  /\ clock' = IF Ok(status) THEN clock ELSE clock + 1
  /\ UNCHANGED <<fs, env, host, libLoaded, lib, dlopens>>

\* await resp.arrayBuffer(), then Deno.writeFile opens and truncates localPath
WriteBegin(t) ==
  /\ tasks[t].pc = "body"
  /\ fs' = (Normalize(LocalPath(tasks[t].dir, Filename)) :> "partial") @@ fs
  /\ tasks' = [tasks EXCEPT ![t].pc = "write", ![t].wrote = TRUE]
  /\ UNCHANGED <<env, host, libLoaded, lib, dlopens, clock>>

\* Deno.writeFile finishes; return localPath
WriteEnd(t) ==
  /\ tasks[t].pc = "write"
  /\ fs' = (Normalize(LocalPath(tasks[t].dir, Filename)) :> "complete") @@ fs
  /\ Return(t, LocalPath(tasks[t].dir, Filename))
  /\ UNCHANGED <<env, host, libLoaded, lib, dlopens>>

\* ------------------------------------------------------------ mod.ts init()
\* open()/list() call init(): if (libLoaded) return; else await ensureLibrary(...)
InitCall ==
  /\ Len(tasks) < MaxTasks
  /\ IF libLoaded
       THEN tasks' = Append(tasks, [NewTask("init", InitDir, InitVersion)
                                     EXCEPT !.pc = "ready", !.ensured = FALSE,
                                            !.ended = clock + 1])
       ELSE tasks' = Append(tasks, NewTask("init", InitDir, InitVersion))
  /\ Tick
  /\ UNCHANGED <<fs, env, host, libLoaded, lib, dlopens>>

\* ffi.ts load(path): if (lib) return lib; lib = Deno.dlopen(path, symbols)
LoadOpens == lib = <<>>

\* init() resumes with the path: load(path); libLoaded = true
InitLoad(t) ==
  /\ tasks[t].pc = "returned"
  /\ tasks[t].kind = "init"
  /\ lib' = IF LoadOpens THEN tasks[t].ret ELSE lib
  /\ dlopens' = IF LoadOpens THEN dlopens + 1 ELSE dlopens
  /\ libLoaded' = TRUE
  /\ tasks' = [tasks EXCEPT ![t].pc = "ready"]
  /\ UNCHANGED <<fs, env, host, clock>>

\* ------------------------------------------------------------ specification
NoOp == Done("none", FALSE, FALSE)

\* open(path, opts): the read timeout handed to serial_open is
\* opts.readTimeoutMs ?? -1.
\* An option is <<>> when omitted, <<v>> when given.
DefaultOpts == [readTimeoutMs |-> <<>>]
OpenOpts == {[readTimeoutMs |-> t] : t \in {<<>>, <<-1>>, <<0>>, <<500>>}}
OpenArgs(opts) ==
  [readTimeoutMs |-> IF opts.readTimeoutMs = <<>> THEN -1 ELSE opts.readTimeoutMs[1]]

\* The primary thread runs JavaScript, or sits in the event loop.
InJs == [op |-> "-", fn |-> "-", args |-> <<>>]

\* No native call running, no failure raised yet.
FfiIdle ==
  /\ main = InJs
  /\ errSlot = <<>>
  /\ results = <<>>
  /\ thrown = <<>>

\* No list() call made yet. cap, np: what serial_list_ports_len and _fill
\* answered; ptrs: the BigUint64Array; mem: the C string behind each address;
\* i: the loop index; out: the array being built; fills, freed: the calls of
\* serial_list_ports_fill and the pointers passed to serial_free_cstr.
ListIdle ==
  [pc |-> "idle", cap |-> 0, np |-> 0, ptrs |-> <<>>, mem |-> <<>>, i |-> 0,
   out |-> <<>>, fills |-> 0, freed |-> <<>>]

\* The loader once init() has run: the library is loaded.
LoaderIdle ==
  /\ host = [os |-> "linux", arch |-> "x86_64"]
  /\ env = <<>>
  /\ fs = (InitDir :> "dir") @@ (CachePath(Filename) :> "complete")
  /\ tasks = <<>>
  /\ libLoaded = TRUE /\ lib = CachePath(Filename) /\ dlopens = 1 /\ clock = 0

\* A session right after open(opts) returned it: library loaded, handle
\* fetched.
Opened(opts) ==
  /\ h \in Handles
  /\ closed = FALSE
  /\ streams = <<>>
  /\ writes = <<>>
  /\ calls = [fn \in Fns |-> <<>>]
  /\ lastOp = NoOp
  /\ LoaderIdle
  /\ FfiIdle /\ openArgs = OpenArgs(opts)
  /\ ls = ListIdle

Init == Opened(DefaultOpts)

CloseNext ==
  \/ \E rc \in RCs : Close(rc) /\ UNCHANGED <<loaderVars, ffiVars, ls>>
  \/ \E rc \in RCs : AsyncDispose(rc) /\ UNCHANGED <<loaderVars, ffiVars, ls>>

ControlNext ==
  \/ \E opts \in FlushOpts, rc \in RCs : Flush(opts, rc) /\ UNCHANGED <<loaderVars, ffiVars, ls>>
  \/ \E rc \in RCs : Drain(rc) /\ UNCHANGED <<loaderVars, ffiVars, ls>>
  \/ \E rc \in RCs : Set(rc) /\ UNCHANGED <<loaderVars, ffiVars, ls>>
  \/ \E rc \in RCs, mask \in SampleMasks : Get(rc, mask) /\ UNCHANGED <<loaderVars, ffiVars, ls>>

StreamNext ==
  \/ Readable /\ UNCHANGED <<loaderVars, ffiVars, ls>>
  \/ \E s \in DOMAIN streams : Pull(s) /\ UNCHANGED <<loaderVars, ffiVars, ls>>
  \/ \E s \in DOMAIN streams, n \in ReadResults : ReadDone(s, n) /\ UNCHANGED <<loaderVars, ffiVars, ls>>
  \/ \E s \in DOMAIN streams, rc \in RCs : Cancel(s, rc) /\ UNCHANGED <<loaderVars, ffiVars, ls>>

WriteNext ==
  \/ \E data \in Payloads : Write(data) /\ UNCHANGED <<loaderVars, ffiVars, ls>>
  \/ \E w \in DOMAIN writes, n \in (-1)..MaxPayload : WriteDone(w, n) /\ UNCHANGED <<loaderVars, ffiVars, ls>>

SessionIdle ==
  /\ h \in Handles /\ closed = FALSE /\ streams = <<>> /\ writes = <<>>
  /\ calls = [fn \in Fns |-> <<>>] /\ lastOp = NoOp

\* A fresh process: nothing loaded, any of the candidate files already built
\* or cached.
LoaderInit ==
  /\ SessionIdle
  /\ host \in Hosts
  /\ env \in EnvPaths
  /\ \E present \in SUBSET ({env, TriplePath(Target, Filename), HostPath(Filename),
                              CachePath(Filename), LocalPath(<<"cache">>, Filename)}
                              \ {<<>>}) :
       fs = [p \in present |-> "complete"]
  /\ tasks = <<>>
  /\ libLoaded = FALSE /\ lib = <<>> /\ dlopens = 0 /\ clock = 0
  /\ FfiIdle /\ openArgs = OpenArgs(DefaultOpts)
  /\ ls = ListIdle

LoaderNext ==
  \/ \E dir \in LocalDirs, version \in Versions :
       EnsureLibrary(dir, version) /\ UNCHANGED <<sessionVars, ffiVars, ls>>
  \/ InitCall /\ UNCHANGED <<sessionVars, ffiVars, ls>>
  \/ \E t \in DOMAIN tasks : Mkdir(t) /\ UNCHANGED <<sessionVars, ffiVars, ls>>
  \/ \E t \in DOMAIN tasks : FindEnv(t) /\ UNCHANGED <<sessionVars, ffiVars, ls>>
  \/ \E t \in DOMAIN tasks : FindTriple(t) /\ UNCHANGED <<sessionVars, ffiVars, ls>>
  \/ \E t \in DOMAIN tasks : FindHost(t) /\ UNCHANGED <<sessionVars, ffiVars, ls>>
  \/ \E t \in DOMAIN tasks : FindCache(t) /\ UNCHANGED <<sessionVars, ffiVars, ls>>
  \/ \E t \in DOMAIN tasks : StatLocal(t) /\ UNCHANGED <<sessionVars, ffiVars, ls>>
  \/ \E t \in DOMAIN tasks, status \in Statuses : Fetch(t, status) /\ UNCHANGED <<sessionVars, ffiVars, ls>>
  \/ \E t \in DOMAIN tasks : WriteBegin(t) /\ UNCHANGED <<sessionVars, ffiVars, ls>>
  \/ \E t \in DOMAIN tasks : WriteEnd(t) /\ UNCHANGED <<sessionVars, ffiVars, ls>>
  \/ \E t \in DOMAIN tasks : InitLoad(t) /\ UNCHANGED <<sessionVars, ffiVars, ls>>

\* ensureLibrary() and init() tasks on one event loop.
LoaderSpec == LoaderInit /\ [][LoaderNext]_vars

Next == CloseNext \/ ControlNext \/ StreamNext \/ WriteNext

\* The whole session.
Spec == Init /\ [][Next]_vars

\* The session without write(): write() reads #h and touches neither #closed nor
\* a stream.
ReadSpec == Init /\ [][CloseNext \/ ControlNext \/ StreamNext]_vars

\* The session without `readable`: a stream touches no write() call.
WriteSpec == Init /\ [][CloseNext \/ ControlNext \/ WriteNext]_vars

\* The streams and close(): the one-shot calls touch neither #closed nor a
\* stream.
StreamSpec == Init /\ [][CloseNext \/ StreamNext]_vars

\* The streams and close() of a session opened with any read timeout.
TimeoutSpec ==
  (\E opts \in OpenOpts : Opened(opts)) /\ [][CloseNext \/ StreamNext]_vars

\* get() over every mask, beside close().
GetSpec ==
  Init /\ [][CloseNext \/ (\E rc \in RCs, mask \in Masks :
                              Get(rc, mask) /\ UNCHANGED <<loaderVars, ffiVars, ls>>)]_vars

\* The streams and close() on a running event loop: a completed native read is
\* delivered to its pull, and the consumer of a stream (for await) keeps
\* asking. The one-shot calls are left out: they touch neither #closed nor a
\* stream.
FairReadSpec ==
  /\ Init /\ [][CloseNext \/ StreamNext]_vars
  /\ \A s \in 1..MaxStreams :
       /\ WF_vars(s \in DOMAIN streams /\ (\E n \in ReadResults : ReadDone(s, n))
                  /\ UNCHANGED <<loaderVars, ffiVars, ls>>)
       /\ WF_vars(s \in DOMAIN streams /\ Pull(s) /\ UNCHANGED <<loaderVars, ffiVars, ls>>)

\* ------------------------------------------------------------ SerialPort.list
\* A C string is <<"json", k>>, the JSON text of port k, or <<"garbage", k>>.
CStrings(k) == {<<"json", k>>, <<"garbage", k>>}

\* JSON.parse(cstr): the value as a one-element set, {} when it throws
JsonParse(cstr) == IF cstr[1] = "json" THEN {[path |-> cstr[2]]} ELSE {}

\* out.push(JSON.parse(cstr)) inside try, with the empty catch
Push(out, cstr) == IF JsonParse(cstr) = {} THEN out ELSE Append(out, CHOOSE v \in JsonParse(cstr) : TRUE)

FreeAfter_OnlyParsed(freed, ptr, cstr) ==
  IF JsonParse(cstr) = {} THEN freed ELSE Append(freed, ptr)
\* finally { lib.symbols.serial_free_cstr(ptr) }
FreeAfter(freed, ptr, cstr) == Append(freed, ptr)

\* list(), after init(): cap = serial_list_ports_len(); return [] when it is
\* 0, else allocate the pointer array.
ListCall(cap) ==
  /\ ls.pc = "idle"
  /\ libLoaded
  /\ ls' = IF cap = 0
             THEN [ls EXCEPT !.pc = "returned", !.cap = cap]
             ELSE [ls EXCEPT !.pc = "fill", !.cap = cap, !.ptrs = [k \in 1..cap |-> 0]]
  /\ UNCHANGED <<sessionVars, loaderVars, ffiVars>>

\* np = serial_list_ports_fill(ptrs, cap): the library stores np <= cap
\* entries, entry k a fresh C string at address k or a null pointer.
ListFill(np, filled, mem) ==
  /\ ls.pc = "fill"
  /\ np <= ls.cap
  /\ DOMAIN filled = 1..np
  /\ \A k \in 1..np : filled[k] \in {0, k}
  /\ DOMAIN mem = {k \in 1..np : filled[k] # 0}
  /\ \A k \in DOMAIN mem : mem[k] \in CStrings(k)
  /\ ls' = [ls EXCEPT !.pc = "loop", !.np = np, !.fills = @ + 1, !.mem = mem,
                      !.ptrs = [k \in 1..ls.cap |-> IF k <= np THEN filled[k] ELSE 0]]
  /\ UNCHANGED <<sessionVars, loaderVars, ffiVars>>

\* One turn of the loop: skip a null entry, else decode, push when JSON.parse
\* succeeds, and free the string.
ListStep ==
  /\ ls.pc = "loop"
  /\ ls.i < ls.np
  /\ LET ptr == ls.ptrs[ls.i + 1]
     IN ls' = IF ptr = 0
                THEN [ls EXCEPT !.i = @ + 1]
                ELSE [ls EXCEPT !.i = @ + 1,
                                !.out = Push(@, ls.mem[ptr]),
                                !.freed = FreeAfter(@, ptr, ls.mem[ptr])]
  /\ UNCHANGED <<sessionVars, loaderVars, ffiVars>>

\* i < Number(np) fails: return out
ListReturn ==
  /\ ls.pc = "loop"
  /\ ls.i >= ls.np
  /\ ls' = [ls EXCEPT !.pc = "returned"]
  /\ UNCHANGED <<sessionVars, loaderVars, ffiVars>>

\* every way serial_list_ports_fill can fill n entries
Fillings(n) ==
  {f \in [1..n -> (0..n) \X {"null", "json", "garbage"}] :
     \A k \in 1..n : /\ f[k][1] \in {0, k}
                     /\ f[k][1] = 0 <=> f[k][2] = "null"}

ListNext ==
  \/ \E cap \in 0..MaxPorts : ListCall(cap)
  \/ \E np \in 0..MaxPorts : \E f \in Fillings(np) :
       ListFill(np, [k \in 1..np |-> f[k][1]],
                [k \in {j \in 1..np : f[j][1] # 0} |-> <<f[k][2], k>>])
  \/ ListStep
  \/ ListReturn

\* One list() call, the library loaded.
ListSpec == Init /\ [][ListNext]_vars

\* ------------------------------------------------------------ FFI dispatch
\* ffi.ts symbols: nonblocking: true is set on serial_read and serial_write
\* alone. Such a call runs on a worker thread and returns a promise; any other
\* symbol runs on the thread that calls it, which stays inside the native
\* function until it returns.
Nonblocking == {"read", "write"}
OnCaller(fn) == fn \notin Nonblocking

\* The library's last-error slot after a call: a failing call leaves its own
\* message there.
SlotAfter(call, failed) == IF failed THEN call ELSE errSlot

\* getLastError() || `... failed: ${rc}`
GetLastError(slot) == slot
Message(slot, fallback) == IF GetLastError(slot) = <<>> THEN fallback ELSE GetLastError(slot)

\* A synchronous call returned: the slot it leaves, and the failure raised
\* from it when the handler throws.
SyncOutcome(call, failed, raises) ==
  /\ errSlot' = SlotAfter(call, failed)
  /\ thrown' = IF raises
                 THEN Append(thrown, [by |-> call,
                                      msg |-> Message(SlotAfter(call, failed), <<"fallback">>)])
                 ELSE thrown

\* The primary thread calls a synchronous symbol: drain(), flush(), and close()
\* on a session not yet closed.
Enter(op, fn, args) ==
  /\ main = InJs
  /\ OnCaller(fn)
  /\ CanIssue
  /\ op = "close" => ~closed
  /\ main' = [op |-> op, fn |-> fn, args |-> args]
  /\ UNCHANGED <<sessionVars, openArgs, errSlot, results, thrown>>

DrainReturns(rc) ==
  /\ main.op = "drain"
  /\ Drain(rc)
  /\ SyncOutcome(<<"drain">>, rc # 0, Raises(rc))
  /\ main' = InJs
  /\ UNCHANGED openArgs /\ results' = results

FlushReturns(rc) ==
  /\ main.op = "flush"
  /\ \E opts \in FlushOpts :
       /\ main.args = <<Bit(opts.in), Bit(opts.out)>>
       /\ Flush(opts, rc)
  /\ SyncOutcome(<<"flush">>, rc # 0, Raises(rc))
  /\ main' = InJs
  /\ UNCHANGED openArgs /\ results' = results

CloseReturns(rc) ==
  /\ main.op = "close"
  /\ Close(rc)
  /\ SyncOutcome(<<"close">>, rc # 0, Raises(rc))
  /\ main' = InJs
  /\ UNCHANGED openArgs /\ results' = results

\* close() on a closed session returns at once.
CloseAgain ==
  /\ main = InJs
  /\ closed
  /\ Close(0)
  /\ UNCHANGED ffiVars

\* A client call that reaches its nonblocking symbol and awaits.
Await(A) ==
  /\ main = InJs
  /\ A
  /\ UNCHANGED ffiVars

Without(f, k) == [x \in DOMAIN f \ {k} |-> f[x]]

\* serial_read returns n on its worker thread.
ReadReturns(s, n) ==
  /\ s \in DOMAIN streams
  /\ streams[s].pulling
  /\ <<"read", s>> \notin DOMAIN results
  /\ results' = results @@ (<<"read", s>> :> n)
  /\ errSlot' = SlotAfter(<<"read", s>>, n < 0)
  /\ UNCHANGED <<sessionVars, main, openArgs, thrown>>

\* The event loop resumes the pull with the result.
ReadDelivered(s) ==
  /\ main = InJs
  /\ <<"read", s>> \in DOMAIN results
  /\ ReadDone(s, results[<<"read", s>>])
  /\ results' = Without(results, <<"read", s>>)
  /\ thrown' = IF results[<<"read", s>>] < 0 /\ ~closed
                 THEN Append(thrown, [by |-> <<"read", s>>,
                                      msg |-> Message(errSlot, <<"fallback">>)])
                 ELSE thrown
  /\ UNCHANGED <<main, openArgs, errSlot>>

\* serial_write returns n on its worker thread.
WriteReturns(w, n) ==
  /\ w \in DOMAIN writes
  /\ writes[w].st = "inflight"
  /\ n \in (-1)..(Len(writes[w].data) - writes[w].off)
  /\ <<"write", w>> \notin DOMAIN results
  /\ results' = results @@ (<<"write", w>> :> n)
  /\ errSlot' = SlotAfter(<<"write", w>>, n < 0)
  /\ UNCHANGED <<sessionVars, main, openArgs, thrown>>

\* The event loop resumes write() with the result.
WriteDelivered(w) ==
  /\ main = InJs
  /\ <<"write", w>> \in DOMAIN results
  /\ WriteDone(w, results[<<"write", w>>])
  /\ results' = Without(results, <<"write", w>>)
  /\ thrown' = IF WriteFails(results[<<"write", w>>])
                 THEN Append(thrown, [by |-> <<"write", w>>,
                                      msg |-> Message(errSlot, <<"fallback">>)])
                 ELSE thrown
  /\ UNCHANGED <<h, closed, streams, lastOp, main, openArgs, errSlot>>

FfiNext ==
  \/ Enter("drain", "drain", <<>>) /\ UNCHANGED <<loaderVars, ls>>
  \/ \E opts \in FlushOpts :
       Enter("flush", "flush", <<Bit(opts.in), Bit(opts.out)>>) /\ UNCHANGED <<loaderVars, ls>>
  \/ Enter("close", "close", <<>>) /\ UNCHANGED <<loaderVars, ls>>
  \/ \E rc \in RCs : DrainReturns(rc) /\ UNCHANGED <<loaderVars, ls>>
  \/ \E rc \in RCs : FlushReturns(rc) /\ UNCHANGED <<loaderVars, ls>>
  \/ \E rc \in RCs : CloseReturns(rc) /\ UNCHANGED <<loaderVars, ls>>
  \/ CloseAgain /\ UNCHANGED <<loaderVars, ls>>
  \/ Await(Readable) /\ UNCHANGED <<loaderVars, ls>>
  \/ \E s \in DOMAIN streams : Await(Pull(s)) /\ UNCHANGED <<loaderVars, ls>>
  \/ \E s \in DOMAIN streams, n \in ReadResults : ReadReturns(s, n) /\ UNCHANGED <<loaderVars, ls>>
  \/ \E s \in DOMAIN streams : ReadDelivered(s) /\ UNCHANGED <<loaderVars, ls>>
  \/ \E data \in Payloads : Await(Write(data)) /\ UNCHANGED <<loaderVars, ls>>
  \/ \E w \in DOMAIN writes, n \in (-1)..MaxPayload : WriteReturns(w, n) /\ UNCHANGED <<loaderVars, ls>>
  \/ \E w \in DOMAIN writes : WriteDelivered(w) /\ UNCHANGED <<loaderVars, ls>>

\* The session with its native calls in flight: a synchronous call between its
\* entry and its return, a nonblocking one between its return on the worker
\* and the delivery of its result.
FfiSpec == Init /\ [][FfiNext]_vars

\* ------------------------------------------------------------ properties
RECURSIVE Sum(_)
Sum(q) == IF q = <<>> THEN 0 ELSE Head(q) + Sum(Tail(q))

WritesBy(w) == {i \in DOMAIN calls["write"] : calls["write"][i].by = <<"write", w>>}
ReadsBy(s) == {i \in DOMAIN calls["read"] : calls["read"][i].by = <<"pull", s>>}

\* C1: once the session is Closed, no registry call is issued with its handle:
\* every recorded call was issued while #closed was still false.
C1_NoCallAfterClose ==
  \A fn \in Fns : \A i \in DOMAIN calls[fn] :
    calls[fn][i].h = h => ~calls[fn][i].late

Closers == {"close", "dispose", "cancel"}

\* C2: close() is idempotent. The registry close is invoked once, by the first
\* of the close()/dispose/cancel calls, which leaves the session Closed and
\* raises exactly when the registry returned nonzero; a call that finds the
\* session Closed does not raise and adds no registry close.
C2_CloseIdempotent ==
  /\ Len(calls["close"]) <= 1
  /\ closed <=> Len(calls["close"]) = 1
  /\ \A i \in DOMAIN calls["close"] : ~calls["close"][i].late
  /\ lastOp.op \in Closers => closed
  /\ (lastOp.op \in Closers /\ lastOp.pre) => ~lastOp.raised
  /\ (lastOp.op \in {"close", "cancel"} /\ ~lastOp.pre)
       => (lastOp.raised <=> calls["close"][1].rc # 0)

\* a second close() after a first close() that raised
C2_Witness ==
  /\ lastOp = Done("close", TRUE, FALSE)
  /\ Len(calls["close"]) = 1
  /\ calls["close"][1].by = "close"
  /\ calls["close"][1].rc # 0

StreamIds == 1..MaxStreams
Has(s) == s \in DOMAIN streams
InFlightAtClose(s) ==
  Has(s) /\ closed /\ streams[s].pulling /\ streams[s].state = "readable"

\* C3: when close() is invoked while a native read of the read stream is in
\* flight, the stream eventually terminates; if the unblocked read returns a
\* negative value or zero, the stream ends closed, not errored.
C3_CloseUnblocksRead ==
  /\ \A s \in StreamIds : InFlightAtClose(s) ~> (Has(s) /\ streams[s].state # "readable")
  /\ [][\A s \in DOMAIN streams :
          (InFlightAtClose(s) /\ ~streams'[s].pulling)
            => /\ streams'[s].state # "errored"
               /\ streams'[s].chunks = streams[s].chunks => streams'[s].state = "closed"]_vars

\* a read unblocked with a negative result after close(): the stream ended cleanly
C3_Witness ==
  \E s \in DOMAIN streams :
    /\ streams[s].why = "negative, closed"
    /\ streams[s].state = "closed"
    /\ calls["close"][1].by = "close"

\* C4: after close(), a pull of a read sequence ends it at once: the stream is
\* closed by that pull, no registry read is issued, no chunk is added and no
\* native read is left in flight.
C4_PullAfterClose ==
  /\ [](\A i \in DOMAIN calls["read"] : ~calls["read"][i].late)
  /\ [][\A s \in DOMAIN streams :
          (closed /\ streams[s].state = "readable" /\ ~streams[s].pulling
             /\ streams'[s] # streams[s])
            => /\ streams'[s].state = "closed"
               /\ ~streams'[s].pulling
               /\ streams'[s].chunks = streams[s].chunks
               /\ calls' = calls]_vars

\* a stream that was pulled for the first time after close()
C4_Witness ==
  \E s \in DOMAIN streams :
    /\ streams[s].why = "session closed"
    /\ ReadsBy(s) = {}
    /\ calls["close"][1].by = "close"

\* C5: a write() that completed was given partial-write counts that sum to the
\* payload length, none negative; a write() that raised did so on its first
\* negative result, and issued no registry write after it.
C5_WriteCompletesOrRaises ==
  \A w \in DOMAIN writes :
    LET wr == writes[w]
        k == Len(wr.counts)
    IN /\ \A i \in 1..(k - 1) : wr.counts[i] >= 0
       /\ wr.st = "done" => /\ Sum(wr.counts) = Len(wr.data)
                            /\ \A i \in 1..k : wr.counts[i] >= 0
                            /\ Cardinality(WritesBy(w)) = k
       /\ wr.st = "failed" => /\ wr.counts[k] < 0
                              /\ Cardinality(WritesBy(w)) = k
       /\ wr.st = "inflight" => /\ \A i \in 1..k : wr.counts[i] >= 0
                                /\ Cardinality(WritesBy(w)) = k + 1

\* a payload sent in two partial writes, and a write() failed after a partial one
C5_Witness ==
  /\ \E w \in DOMAIN writes :
       writes[w].st = "done" /\ Len(writes[w].counts) >= 2 /\ Len(writes[w].data) > 0
  /\ \E w \in DOMAIN writes : writes[w].st = "failed"

\* C8: scoped cleanup is close(): it leaves the session Closed, invokes the
\* registry close only on a session still Open, does not raise, and never
\* invokes the registry drain.
C8_DisposeIsClose ==
  /\ \A i \in DOMAIN calls["drain"] : calls["drain"][i].by = "drain"
  /\ lastOp.op = "dispose" => closed /\ ~lastOp.raised /\ Len(calls["close"]) = 1
  /\ \A i \in DOMAIN calls["close"] : calls["close"][i].by = "dispose" => ~calls["close"][i].late
  /\ (lastOp.op = "dispose" /\ ~lastOp.pre) => calls["close"][1].by = "dispose"
  /\ Len(calls["close"]) <= 1

\* dispose of an Open session whose registry close returned nonzero
C8_Witness ==
  /\ lastOp = Done("dispose", FALSE, FALSE)
  /\ calls["close"][1].by = "dispose"
  /\ calls["close"][1].rc # 0
  /\ closed

\* C9: registry writes are issued in the order of the write() calls: no
\* registry write of an earlier write() follows one of a later write().
C9_WritesInCallOrder ==
  \A i, j \in DOMAIN calls["write"] :
    i < j => calls["write"][i].by[2] <= calls["write"][j].by[2]

Sequential(i, j) == tasks[i].ended > 0 /\ tasks[i].ended < tasks[j].started
SameArgs(i, j) == tasks[i].dir = tasks[j].dir /\ tasks[i].version = tasks[j].version

\* C6: ensureLibrary is idempotent: of two sequential calls with the same
\* (cacheDir, version), both returning, the second returns the path the first
\* returned; at most one of them downloads; after a call that succeeded, the
\* later call does not fetch.
C6_EnsureIdempotent ==
  \A i, j \in DOMAIN tasks :
    (Sequential(i, j) /\ SameArgs(i, j))
      => /\ (tasks[i].pc = "returned" /\ tasks[j].pc = "returned")
              => tasks[j].ret = tasks[i].ret
         /\ ~(tasks[i].wrote /\ tasks[j].wrote)
         /\ tasks[i].pc = "returned" => ~tasks[j].fetched

\* C7: a non-success response makes ensureLibrary fail with a download failure
\* that carries the status answered and the release URL, and the call writes
\* nothing: unless another call wrote it, the cache file exists afterwards only
\* if it existed when the call was made.
C7_DownloadFailure ==
  \A t \in DOMAIN tasks :
    LET tk == tasks[t]
        file == Normalize(LocalPath(tk.dir, Filename))
        others == {u \in DOMAIN tasks : u # t /\ tasks[u].wrote
                     /\ Normalize(LocalPath(tasks[u].dir, Filename)) = file}
    IN (tk.fetched /\ ~Ok(tk.resp))
         => /\ tk.pc = "failed"
            /\ tk.err = [kind |-> "download", status |-> tk.resp,
                         url |-> ReleaseUrl(tk.version, Target, Filename)]
            /\ ~tk.wrote
            /\ others = {} => (file \in DOMAIN fs <=> tk.pre)

\* a call answered 404 that failed and left no file at its cache path
C7_Witness ==
  \E t \in DOMAIN tasks :
    /\ tasks[t].pc = "failed"
    /\ tasks[t].fetched /\ tasks[t].resp = 404
    /\ tasks[t].err.kind = "download" /\ tasks[t].err.status = 404
    /\ ~Exists(LocalPath(tasks[t].dir, Filename))

\* C10: resolver and provisioner run once per process: among the init() calls
\* of open() and list() at most one executes ensureLibrary, at most one
\* download is started, and the library is opened at most once.
C10_InitOnce ==
  /\ Cardinality({t \in DOMAIN tasks : tasks[t].kind = "init" /\ tasks[t].ensured}) <= 1
  /\ Cardinality({t \in DOMAIN tasks : tasks[t].kind = "init" /\ tasks[t].fetched}) <= 1
  /\ dlopens <= 1

\* ensureLibrary call t returns in this step
Returns(t) ==
  /\ t \in DOMAIN tasks
  /\ tasks[t].pc # "returned"
  /\ tasks'[t].pc = "returned"

\* C11: no reader meets a partly written binary at the cache path: whenever an
\* ensureLibrary call returns a path, the file at that path is complete at
\* that moment, also while another call is persisting its download there.
C11_NoPartialBinary ==
  [][\A t \in 1..MaxTasks :
       Returns(t) => fs'[Normalize(tasks'[t].ret)] = "complete"]_vars

\* the registry calls that wait on the device
BlockingCalls == {"open", "read", "write", "drain"}

\* C12: the blocking registry calls (open, read, write, drain) run off the
\* primary thread: in no reachable state is the primary thread inside one of
\* them, so that a client call such as close() can always be started.
C12_PrimaryNeverBlocked == main.fn \notin BlockingCalls

\* C13: get() returns cts = bit 0, dsr = bit 1, dcd = bit 2, ri = bit 3 of the
\* mask serial_get_lines wrote, for each of the 16 masks, and raises without
\* returning a value when serial_get_lines answers nonzero.
C13_GetDecodesMask ==
  \A x \in lastOp.io :
    /\ x.rc = 0 =>
         /\ ~lastOp.raised
         /\ x.out = {[cts |-> x.mask % 2 = 1,
                      dsr |-> (x.mask \div 2) % 2 = 1,
                      dcd |-> (x.mask \div 4) % 2 = 1,
                      ri |-> (x.mask \div 8) % 2 = 1]}
    /\ x.rc # 0 => (lastOp.raised /\ x.out = {})

\* get() answered mask 10 on an Open session: dsr and ri set, cts and dcd not
C13_Witness ==
  /\ lastOp.op = "get" /\ ~lastOp.raised
  /\ \E x \in lastOp.io :
       /\ x.rc = 0 /\ x.mask = 10
       /\ x.out = {[cts |-> FALSE, dsr |-> TRUE, dcd |-> FALSE, ri |-> TRUE]}

\* pull of stream s resumes from its await in this step, the stream not
\* cancelled meanwhile
Resumes(s) ==
  /\ s \in DOMAIN streams
  /\ streams[s].pulling /\ ~streams'[s].pulling
  /\ streams[s].state = "readable"

\* C14: a pull classifies its one read result n: positive, it enqueues one
\* chunk, the first n bytes of the buffer, and the stream stays open; zero, the
\* stream ends cleanly; negative, the stream ends cleanly if the session is
\* Closed when the result is seen and fails otherwise.
C14_PullClassifies ==
  [][\A s \in 1..MaxStreams :
       Resumes(s) =>
         LET n == streams'[s].res[1]
             old == streams[s]
             new == streams'[s]
         IN /\ n > 0 => /\ new.state = "readable"
                        /\ new.chunks = Append(old.chunks, [from |-> 0, to |-> n])
            /\ n = 0 => (new.state = "closed" /\ new.chunks = old.chunks)
            /\ (n < 0 /\ closed) => (new.state = "closed" /\ new.chunks = old.chunks)
            /\ (n < 0 /\ ~closed) => (new.state = "errored" /\ new.chunks = old.chunks)]_vars

\* a pull that read one byte enqueued the first byte of the buffer, the stream
\* still open
C14_Witness ==
  \E s \in DOMAIN streams :
    /\ streams[s].res = <<1>>
    /\ streams[s].state = "readable" /\ ~streams[s].pulling
    /\ streams[s].chunks = <<[from |-> 0, to |-> 1]>>

\* C15: each step of the read sequence issues exactly one registry read, with
\* the fixed buffer size as capacity and the read timeout the session was
\* opened with (readTimeoutMs, or the default) as timeout.
C15_ReadUsesSessionTimeout ==
  [][\A s \in 1..MaxStreams :
       (s \in DOMAIN streams /\ ~streams[s].pulling /\ streams'[s].pulling)
         => /\ Len(calls'["read"]) = Len(calls["read"]) + 1
            /\ calls'["read"][Len(calls'["read"])].args
                 = <<BufSize, openArgs.readTimeoutMs>>]_vars

\* stream s ended by a 0 result, by a failure, or by the consumer's cancel
Terminated(s) ==
  /\ streams[s].state # "readable"
  /\ streams[s].why \in {"zero", "negative", "cancel"}

\* C16: the read sequence of a session does not restart: once a stream has
\* ended (0 result, failure or cancel), no further registry read is issued and
\* no further chunk is yielded, whatever the client does, `readable` accessed
\* again on the Open session included.
C16_NonRestartable ==
  [][(\E s \in DOMAIN streams : Terminated(s))
       => /\ calls'["read"] = calls["read"]
          /\ \A t \in DOMAIN streams : streams'[t].chunks = streams[t].chunks]_vars

\* C17: a failure raised for a failed registry call carries the message of
\* that call: the error slot is read before any other registry call writes it,
\* under every interleaving of read and write completions with other calls.
C17_MessageOfFailingCall ==
  \A i \in DOMAIN thrown : thrown[i].msg = thrown[i].by

\* the override path, when set and existing
OverrideExists == env # <<>> /\ Exists(env)
BuildExists == Exists(TriplePath(Target, Filename)) \/ Exists(HostPath(Filename))

\* C18: ensureLibrary(cacheDir, version) resolves in a fixed order, the first
\* existing candidate winning: (1) the override path, (2) the target-triple
\* build output, then the default build output, (3) cacheDir/<filename>, (4) a
\* download into cacheDir/<filename>. The path returned is one of these, and a
\* download is attempted only when none of (1)-(3) exists.
C18_ResolutionOrder ==
  \A t \in DOMAIN tasks :
    LET tk == tasks[t]
        triple == TriplePath(Target, Filename)
        build == HostPath(Filename)
        cached == LocalPath(tk.dir, Filename)
    IN /\ (tk.pc \in {"returned", "ready"} /\ tk.ensured) =>
            /\ tk.ret \in {env, triple, build, cached}
            /\ tk.ret = env => OverrideExists
            /\ (tk.ret = triple /\ tk.ret # env) => ~OverrideExists
            /\ (tk.ret = build /\ tk.ret # env) => (~OverrideExists /\ ~Exists(triple))
            /\ (tk.ret = cached /\ tk.ret # env) => (~OverrideExists /\ ~BuildExists)
       /\ tk.fetched => (~OverrideExists /\ ~BuildExists /\ ~tk.pre)

\* how many times pointer p was passed to serial_free_cstr
Frees(p) == Cardinality({k \in DOMAIN ls.freed : ls.freed[k] = p})

\* C19: list() frees every non-null pointer serial_list_ports_fill returned
\* exactly once, decoded or not, and never passes a null pointer to
\* serial_free_cstr; a malformed entry is skipped and the call still returns;
\* when serial_list_ports_len answers 0, list() returns the empty array
\* without calling serial_list_ports_fill or serial_free_cstr.
C19_ListFreesOnce ==
  /\ \A k \in DOMAIN ls.freed : ls.freed[k] # 0
  /\ \A k \in DOMAIN ls.ptrs : ls.ptrs[k] # 0 => Frees(ls.ptrs[k]) <= 1
  /\ ls.pc \in {"idle", "fill", "loop", "returned"}
  /\ ls.pc = "returned" =>
       /\ \A k \in DOMAIN ls.ptrs : ls.ptrs[k] # 0 => Frees(ls.ptrs[k]) = 1
       /\ Len(ls.freed) = Cardinality({k \in DOMAIN ls.ptrs : ls.ptrs[k] # 0})
       /\ \A k \in DOMAIN ls.out : \E a \in DOMAIN ls.mem :
            ls.mem[a] = <<"json", ls.out[k].path>>
       /\ Len(ls.out) = Cardinality({a \in DOMAIN ls.mem : ls.mem[a][1] = "json"})
       /\ ls.cap = 0 => (ls.out = <<>> /\ ls.fills = 0 /\ ls.freed = <<>>)

\* list() returned from three entries, one null, one malformed, one valid:
\* two strings freed, one port listed
C19_Witness ==
  /\ ls.pc = "returned" /\ ls.np = 3
  /\ Cardinality({k \in DOMAIN ls.ptrs : ls.ptrs[k] = 0}) = 1
  /\ Cardinality({a \in DOMAIN ls.mem : ls.mem[a][1] = "garbage"}) = 1
  /\ Len(ls.freed) = 2 /\ Len(ls.out) = 1

\* the consumer cancels stream s in this step
Cancels(s) ==
  /\ s \in DOMAIN streams
  /\ streams[s].why # "cancel" /\ streams'[s].why = "cancel"

\* C20: cancelling a read sequence closes the session: after cancel the
\* session is Closed, and cancel invokes the registry close exactly when the
\* session was still Open, never on a session already Closed.
C20_CancelCloses ==
  [][\A s \in 1..MaxStreams :
       Cancels(s) =>
         /\ closed'
         /\ closed => calls' = calls
         /\ ~closed =>
              /\ Len(calls'["close"]) = Len(calls["close"]) + 1
              /\ calls'["close"][Len(calls'["close"])].by = "cancel"
              /\ calls'["close"][Len(calls'["close"])].h = h
              /\ \A fn \in Fns \ {"close"} : calls'[fn] = calls[fn]]_vars

\* a stream cancelled on an Open session: the session Closed by the one
\* registry close, issued by cancel
C20_Witness ==
  /\ lastOp.op = "cancel" /\ ~lastOp.pre
  /\ closed
  /\ \E s \in DOMAIN streams : streams[s].why = "cancel"
  /\ Len(calls["close"]) = 1 /\ calls["close"][1].by = "cancel"

\* the registry writes of write() call w, in issue order
WriteCallsOf(w) == SelectSeq(calls["write"], LAMBDA c : c.by = <<"write", w>>)

\* every result write() call w got so far is negative or at least 1 (none is
\* larger than the length requested: serial_write is given that length)
ResultsInRange(w) ==
  \A i \in DOMAIN writes[w].counts :
    writes[w].counts[i] < 0 \/ writes[w].counts[i] >= 1

\* C21: write(data) terminates. An empty payload issues no registry write.
\* For a payload of length L, if every registry write returns a negative
\* value or a count from 1 to the length requested, write() settles after at
\* most L registry writes, each passed exactly the suffix not yet sent.
C21_WriteTerminates ==
  \A w \in DOMAIN writes :
    LET wr == writes[w]
        L == Len(wr.data)
        issued == WriteCallsOf(w)
    IN /\ L = 0 => (issued = <<>> /\ wr.st = "done")
       /\ ResultsInRange(w) =>
            /\ Len(issued) <= L
            /\ Len(wr.counts) >= L => wr.st \in {"done", "failed"}
            /\ \A i \in DOMAIN issued :
                 LET sent == Sum(SubSeq(wr.counts, 1, i - 1))
                 IN issued[i].args = <<SubSeq(wr.data, sent + 1, L), L - sent>>

\* a two-byte payload sent by two registry writes of one byte each: the second
\* was passed the last byte alone, and write() completed
C21_Witness ==
  \E w \in DOMAIN writes :
    /\ Len(writes[w].data) = 2
    /\ writes[w].counts = <<1, 1>>
    /\ writes[w].st = "done"
    /\ Len(WriteCallsOf(w)) = 2
    /\ WriteCallsOf(w)[2].args = <<SubSeq(writes[w].data, 2, 2), 1>>

====
